---- MODULE Spec2Model ----
(***************************************************************************)
(* A model of gocron (src/gocron.go): the Job builder, the next-run        *)
(* computation, the Scheduler's collection and dispatch operations, and    *)
(* the background loop launched by Start.                                  *)
(*                                                                         *)
(* Instants are whole seconds since the Unix epoch, in the location loc    *)
(* (taken to be UTC, no daylight saving).  A handler reads the clock as    *)
(* one instant: the clock moves between handlers (action Advance).         *)
(* Spec, SpecLoop and SpecJob take each call as one step; SpecRace takes   *)
(* the loop's sort and the caller's append statement by statement.         *)
(***************************************************************************)
EXTENDS Integers, Sequences, FiniteSets, TLC

\* ------------------------------------------------------------------ bounds
MaxJobs == 2
MaxAdvances == 2
MaxRunning == 2

\* ------------------------------------------------------- program constants
UnitSeconds == "seconds"
UnitMinutes == "minutes"
UnitHours == "hours"
UnitDays == "days"
UnitWeeks == "weeks"
Units == {UnitSeconds, UnitMinutes, UnitHours, UnitDays, UnitWeeks}

\* time.Unix(0, 0): the "never run" value NewJob gives lastRun and nextRun
Epoch == 0
\* time.Sunday, the startDay NewJob sets
Sunday == 0

SecondsPerMinute == 60
SecondsPerHour == 60 * 60
SecondsPerDay == 60 * 60 * 24
SecondsPerWeek == 60 * 60 * 24 * 7

\* ------------------------------------------------------------ package time
\* 1 January 1970 was a Thursday (time.Weekday 4)
Weekday(t) == ((t \div SecondsPerDay) + 4) % 7

\* time.Date(Now().Year(), Now().Month(), Now().Day() - back, hour, min, 0, 0, loc)
\* evaluated at instant t: Date normalises a day number below 1 into the
\* previous month, so the result is `back` whole days before today's hour:min.
DateOf(t, back, hour, min) ==
    (t - (t % SecondsPerDay)) - back * SecondsPerDay
        + hour * SecondsPerHour + min * SecondsPerMinute

\* ---------------------------------------------------------- payload values
\* The values a caller hands to Do and Remove.  "f" and "h" are func(), "g"
\* is a func(x), "v" is a value that is not a function.  getFunctionName
\* gives each function its own name.  f and g return at once: a goroutine
\* running one of them is over before the next call.  h may run for any
\* length of time, or for ever.
Funcs == {"f", "g", "h"}
NotFunc == "v"
NumIn(fn) == IF fn = "g" THEN 1 ELSE 0
Lasting(fn) == fn = "h"
getFunctionName(fn) == fn

\* ------------------------------------------------------------------- state
VARIABLES
    now,        \* time.Now(), in seconds
    advances,   \* how many times the clock has moved (bounded by MaxAdvances)
    jobs,       \* Scheduler.jobs: the sequence of *Job, each a record
    loop,       \* the goroutine of Start: "none", "running", "returned"
    stopped,    \* the channel Start returns: messages buffered (cap 1), sends
                \* made, and whether a sender is blocked on it
    crashed,    \* the process has died of a panic nobody recovers
    last,       \* the call that led to this state, and what it did
    race        \* where the loop's sort and the caller's append stand when
                \* their statements are taken one by one (see SpecRace)

vars == <<now, advances, jobs, loop, stopped, crashed, last, race>>

\* What a call did: its result ("ok", "err", "panic"), who made it ("caller"
\* or "loop"), the instant it read, and for a dispatching call the list it
\* walked (getRunnableJobs' result for RunPending, s.jobs for RunAll), as
\* job ids with the nextRun each had, then the jobs whose payload was
\* launched and the jobs whose run returned an error, in call order.  busy
\* is the set of jobs of the list that had an unfinished payload as the call
\* began.  For Remove the list is s.jobs as the call began and ret says
\* whether a job matched, matches the jobs of the list with the payload
\* name of the argument, in list order; for NextRun ret is the pair
\* returned.  sleep is the Duration handed to time.Sleep between two
\* firings, in nanoseconds.
NoCall ==
    [op |-> "", res |-> "ok", by |-> "caller", at |-> 0, runnable |-> <<>>,
     due |-> <<>>, fired |-> <<>>, failed |-> <<>>, busy |-> {}, ret |-> <<>>,
     matches |-> <<>>, sleep |-> 0]

Plain(op, res, t) == [NoCall EXCEPT !.op = op, !.res = res, !.at = t]

\* Statement by statement: pc is the loop's place in RunPending ("idle",
\* "less", "swap", "swapW1", "swapW2", "scan"), n, i, j the variables of
\* sort's insertion sort (indices from 1), temps the two pointers Swap has
\* read, stale whether s.jobs has since been given another array than the
\* one Swap writes to; cap is cap(s.jobs); caller is "every" between
\* append's copy into a larger array (snap) and the assignment to s.jobs.
\* live is the set of jobs Every has added and Remove or Clear has not taken
\* out, overlap whether the last statement fell inside a call of the other
\* goroutine, calls how many calls the caller has made of those counted
\* against MaxRaceCalls.
Quiet ==
    [pc |-> "idle", n |-> 0, i |-> 0, j |-> 0, temps |-> <<>>, stale |-> FALSE,
     cap |-> 0, caller |-> "idle", snap |-> <<>>, live |-> {},
     overlap |-> FALSE, calls |-> 0]

\* --------------------------------------------------------------------- Job
\* A Job value.  id stands for the pointer; funcs and fparams hold at most
\* the one entry Do stores, so jobFunc names the payload ("" before Do) and
\* nparams is len(fparams[jobFunc]).  inflight counts the goroutines run has
\* launched for this job that are still running its payload, up to
\* MaxRunning, which stands for "MaxRunning or more".
NewJob(id, interval) ==
    [id |-> id, interval |-> interval, jobFunc |-> "", unit |-> "",
     lastRun |-> Epoch, nextRun |-> Epoch, period |-> 0, startDay |-> Sunday,
     nparams |-> 0, inflight |-> 0]

shouldRun(j, t) == t > j.nextRun

\* The period, were a week taken for a day
PeriodOf_WeekAsDay(j) ==
    CASE j.unit = UnitMinutes -> j.interval * 60
      [] j.unit = UnitHours -> j.interval * 60 * 60
      [] j.unit = UnitDays -> j.interval * 60 * 60 * 24
      [] j.unit = UnitWeeks -> j.interval * 60 * 60 * 24
      [] j.unit = UnitSeconds -> j.interval
      [] OTHER -> j.period

\* The period scheduleNextRun derives from unit and interval, in seconds
PeriodOf(j) ==
    CASE j.unit = UnitMinutes -> j.interval * 60
      [] j.unit = UnitHours -> j.interval * 60 * 60
      [] j.unit = UnitDays -> j.interval * 60 * 60 * 24
      [] j.unit = UnitWeeks -> j.interval * 60 * 60 * 24 * 7
      [] j.unit = UnitSeconds -> j.interval
      [] OTHER -> j.period

\* scheduleNextRun, were it to anchor lastRun anew at every call
scheduleNextRun_Reanchors(j, t) ==
    LET i == Weekday(t) - j.startDay
        back == IF i < 0 THEN 7 + i ELSE i
        lr == IF j.unit = UnitWeeks THEN DateOf(t, back, 0, 0) ELSE t
        p == IF j.period # 0 THEN j.period ELSE PeriodOf(j)
    IN  [j EXCEPT !.lastRun = lr, !.period = p, !.nextRun = lr + p]

scheduleNextRun(j, t) ==
    LET i == Weekday(t) - j.startDay
        back == IF i < 0 THEN 7 + i ELSE i
        lr == IF j.lastRun = Epoch
              THEN IF j.unit = UnitWeeks THEN DateOf(t, back, 0, 0) ELSE t
              ELSE j.lastRun
        p == IF j.period # 0 THEN j.period ELSE PeriodOf(j)
    IN  [j EXCEPT !.lastRun = lr, !.period = p, !.nextRun = lr + p]

\* go f.Call(in): one more goroutine running the payload; run does not wait
\* for it
Launch(fn, n) ==
    IF ~Lasting(fn) THEN n
    ELSE IF n < MaxRunning THEN n + 1 ELSE MaxRunning

\* run, were it to reschedule from the previous lastRun instead of the
\* instant of the fire
run_KeepsLastRun(j, t) ==
    IF j.jobFunc = "" THEN [res |-> "panic", job |-> j]
    ELSE IF j.nparams # NumIn(j.jobFunc) THEN [res |-> "err", job |-> j]
    ELSE [res |-> "ok",
          job |-> scheduleNextRun(
                      [j EXCEPT !.inflight = Launch(j.jobFunc, j.inflight)], t)]

\* run, were it to wait for the job's unfinished payload instead of
\* launching another: it gives up on a job that has one
run_WaitsForPayload(j, t) ==
    IF j.jobFunc = "" THEN [res |-> "panic", job |-> j]
    ELSE IF j.nparams # NumIn(j.jobFunc) \/ j.inflight > 0
    THEN [res |-> "err", job |-> j]
    ELSE [res |-> "ok",
          job |-> scheduleNextRun(
                      [j EXCEPT !.inflight = Launch(j.jobFunc, j.inflight),
                                !.lastRun = t], t)]

\* run: "panic" when no payload is stored under jobFunc (reflect.ValueOf of
\* a nil interface is the zero Value, and Type() of it panics), "err" on an
\* argument-count mismatch, else the payload is launched in its own
\* goroutine and the job rescheduled.
run(j, t) ==
    IF j.jobFunc = "" THEN [res |-> "panic", job |-> j]
    ELSE IF j.nparams # NumIn(j.jobFunc) THEN [res |-> "err", job |-> j]
    ELSE [res |-> "ok",
          job |-> scheduleNextRun(
                      [j EXCEPT !.inflight = Launch(j.jobFunc, j.inflight), !.lastRun = t], t)]

\* Do, were it to store the payload without computing the first nextRun
Do_WithoutSchedule(j, t, jobFun, n) ==
    IF jobFun = NotFunc THEN [res |-> "panic", job |-> j]
    ELSE [res |-> "ok",
          job |-> [j EXCEPT !.jobFunc = getFunctionName(jobFun), !.nparams = n]]

\* Do: panics unless jobFun is a function; stores it with its params under
\* its name and computes the first nextRun.
Do(j, t, jobFun, n) ==
    IF jobFun = NotFunc THEN [res |-> "panic", job |-> j]
    ELSE [res |-> "ok",
          job |-> scheduleNextRun(
                      [j EXCEPT !.jobFunc = getFunctionName(jobFun), !.nparams = n], t)]

\* A clock-time argument of At is a string, here the sequence of its
\* characters.
Digits == <<"0", "1", "2", "3", "4", "5", "6", "7", "8", "9">>
IsDigit(c) == \E d \in 1..10 : Digits[d] = c
DigitVal(c) == (CHOOSE d \in 1..10 : Digits[d] = c) - 1

\* strings.Split(t, ":")
RECURSIVE Split(_)
Split(s) ==
    IF \A k \in 1..Len(s) : s[k] # ":" THEN <<s>>
    ELSE LET k == CHOOSE x \in 1..Len(s) :
                      s[x] = ":" /\ \A y \in 1..(x - 1) : s[y] # ":"
         IN  <<SubSeq(s, 1, k - 1)>> \o Split(SubSeq(s, k + 1, Len(s)))

\* strconv.Atoi: an optional sign, then one or more decimal digits
RECURSIVE DecimalOf(_)
DecimalOf(s) ==
    IF s = <<>> THEN 0
    ELSE DecimalOf(SubSeq(s, 1, Len(s) - 1)) * 10 + DigitVal(s[Len(s)])

Atoi(s) ==
    LET signed == s # <<>> /\ s[1] \in {"+", "-"}
        body == IF signed THEN Tail(s) ELSE s
    IN  IF body = <<>> \/ \E k \in 1..Len(body) : ~IsDigit(body[k])
        THEN [ok |-> FALSE, val |-> 0]
        ELSE [ok |-> TRUE,
              val |-> IF signed /\ s[1] = "-" THEN 0 - DecimalOf(body)
                      ELSE DecimalOf(body)]

formatTime(s) ==
    LET ts == Split(s)
    IN  IF Len(ts) # 2 THEN [ok |-> FALSE, hour |-> 0, min |-> 0]
        ELSE LET h == Atoi(ts[1])
                 m == Atoi(ts[2])
             IN  IF ~h.ok \/ ~m.ok THEN [ok |-> FALSE, hour |-> 0, min |-> 0]
                 ELSE IF h.val < 0 \/ h.val > 23 \/ m.val < 0 \/ m.val > 59
                 THEN [ok |-> FALSE, hour |-> 0, min |-> 0]
                 ELSE [ok |-> TRUE, hour |-> h.val, min |-> m.val]

\* At, were it to anchor a days job to today's clock time s whether or not
\* that time has passed
At_AlwaysToday(j, t, s) ==
    LET hm == formatTime(s)
        mock == DateOf(t, 0, hm.hour, hm.min)
        i == Weekday(mock) - j.startDay
        back == IF i < 0 THEN 7 + i ELSE i
    IN  IF ~hm.ok THEN [res |-> "panic", job |-> j]
        ELSE IF j.unit = UnitDays
        THEN [res |-> "ok", job |-> [j EXCEPT !.lastRun = mock]]
        ELSE IF j.unit = UnitWeeks
        THEN [res |-> "ok",
              job |-> [j EXCEPT !.lastRun =
                          IF j.startDay # Weekday(t)
                             \/ (t > mock /\ j.startDay = Weekday(t))
                          THEN DateOf(t, back, hm.hour, hm.min)
                          ELSE DateOf(t, 7, hm.hour, hm.min)]]
        ELSE [res |-> "ok", job |-> j]

\* At, were it to anchor a days job to yesterday's clock time s whether or
\* not today's has passed
At_AlwaysYesterday(j, t, s) ==
    LET hm == formatTime(s)
        mock == DateOf(t, 0, hm.hour, hm.min)
        i == Weekday(mock) - j.startDay
        back == IF i < 0 THEN 7 + i ELSE i
    IN  IF ~hm.ok THEN [res |-> "panic", job |-> j]
        ELSE IF j.unit = UnitDays
        THEN [res |-> "ok",
              job |-> [j EXCEPT !.lastRun = DateOf(t, 1, hm.hour, hm.min)]]
        ELSE IF j.unit = UnitWeeks
        THEN [res |-> "ok",
              job |-> [j EXCEPT !.lastRun =
                          IF j.startDay # Weekday(t)
                             \/ (t > mock /\ j.startDay = Weekday(t))
                          THEN DateOf(t, back, hm.hour, hm.min)
                          ELSE DateOf(t, 7, hm.hour, hm.min)]]
        ELSE [res |-> "ok", job |-> j]

\* At, were it never to go a whole week back for a weeks job
At_NeverAWeekBack(j, t, s) ==
    LET hm == formatTime(s)
        mock == DateOf(t, 0, hm.hour, hm.min)
        i == Weekday(mock) - j.startDay
        back == IF i < 0 THEN 7 + i ELSE i
    IN  IF ~hm.ok THEN [res |-> "panic", job |-> j]
        ELSE IF j.unit = UnitDays
        THEN [res |-> "ok",
              job |-> [j EXCEPT !.lastRun =
                          IF t > mock THEN mock
                          ELSE DateOf(t, 1, hm.hour, hm.min)]]
        ELSE IF j.unit = UnitWeeks
        THEN [res |-> "ok",
              job |-> [j EXCEPT !.lastRun = DateOf(t, back, hm.hour, hm.min)]]
        ELSE [res |-> "ok", job |-> j]

\* At: anchors lastRun of a days or weeks job to the clock time s
At(j, t, s) ==
    LET hm == formatTime(s)
        mock == DateOf(t, 0, hm.hour, hm.min)
        i == Weekday(mock) - j.startDay
        back == IF i < 0 THEN 7 + i ELSE i
    IN  IF ~hm.ok THEN [res |-> "panic", job |-> j]
        ELSE IF j.unit = UnitDays
        THEN [res |-> "ok",
              job |-> [j EXCEPT !.lastRun =
                          IF t > mock THEN mock
                          ELSE DateOf(t, 1, hm.hour, hm.min)]]
        ELSE IF j.unit = UnitWeeks
        THEN [res |-> "ok",
              job |-> [j EXCEPT !.lastRun =
                          IF j.startDay # Weekday(t)
                             \/ (t > mock /\ j.startDay = Weekday(t))
                          THEN DateOf(t, back, hm.hour, hm.min)
                          ELSE DateOf(t, 7, hm.hour, hm.min)]]
        ELSE [res |-> "ok", job |-> j]

\* Seconds, Minutes, Hours, Days, Weeks: set the unit
SetUnit(j, u) == [res |-> "ok", job |-> [j EXCEPT !.unit = u]]

\* Second, Minute, Hour, Day: panic unless interval is 1
SetUnitSingular(j, u) ==
    IF j.interval # 1 THEN [res |-> "panic", job |-> j] ELSE SetUnit(j, u)

\* Monday .. Sunday: panic unless interval is 1, set startDay, then Weeks
SetWeekday(j, d) ==
    IF j.interval # 1 THEN [res |-> "panic", job |-> j]
    ELSE SetUnit([j EXCEPT !.startDay = d], UnitWeeks)

\* --------------------------------------------------------------- Scheduler
IndexOf(js, id) == CHOOSE k \in 1..Len(js) : js[k].id = id
JobOf_(js, id) == js[IndexOf(js, id)]
Ids(js) == [k \in 1..Len(js) |-> js[k].id]
NextRuns(js) == [k \in 1..Len(js) |-> js[k].nextRun]
Busy(js) == {js[k].id : k \in {x \in 1..Len(js) : js[x].inflight > 0}}

\* Less with the comparison the other way round
Less_Descending(js, i, j) == js[i].nextRun > js[j].nextRun

\* Less(i, j): jobs[j].nextRun.After(jobs[i].nextRun)
Less(js, i, j) == js[j].nextRun > js[i].nextRun

\* sort.Sort(s): some rearrangement of s.jobs in which no job is Less than
\* one before it.  sort.Sort is not stable, so jobs with equal nextRun may
\* come out in any order.
Sorted(js) ==
    {[k \in 1..Len(js) |-> js[p[k]]] :
        p \in {q \in [1..Len(js) -> 1..Len(js)] :
                  /\ \A a, b \in 1..Len(js) : a # b => q[a] # q[b]
                  /\ \A a, b \in 1..Len(js) :
                        a < b => ~Less(js, q[b], q[a])}}

\* getRunnableJobs, on the sorted collection: the jobs up to the first one
\* that should not run
RECURSIVE getRunnableJobs(_, _)
getRunnableJobs(js, t) ==
    IF js = <<>> \/ ~shouldRun(Head(js), t) THEN <<>>
    ELSE <<Head(js)>> \o getRunnableJobs(Tail(js), t)

\* The walk, were it to end at the first job whose run returns an error
RECURSIVE RunEach_StopOnError(_, _, _)
RunEach_StopOnError(ids, st, t) ==
    IF ids = <<>> THEN st
    ELSE LET k == CHOOSE x \in 1..Len(st.jobs) : st.jobs[x].id = Head(ids)
             r == run(st.jobs[k], t)
         IN  IF r.res = "panic" THEN [st EXCEPT !.res = "panic"]
             ELSE IF r.res = "err"
             THEN [st EXCEPT !.failed = Append(st.failed, Head(ids))]
             ELSE RunEach_StopOnError(Tail(ids),
                     [st EXCEPT !.jobs = [st.jobs EXCEPT ![k] = r.job],
                                !.fired = Append(st.fired, Head(ids))], t)

\* for _, job := range list { job.run() }: run on each job of the list in
\* turn; a panic in run ends the walk with the later jobs untouched.
RECURSIVE RunEach(_, _, _)
RunEach(ids, st, t) ==
    IF ids = <<>> THEN st
    ELSE LET k == IndexOf(st.jobs, Head(ids))
             r == run(st.jobs[k], t)
         IN  IF r.res = "panic" THEN [st EXCEPT !.res = "panic"]
             ELSE RunEach(Tail(ids),
                     [jobs |-> [st.jobs EXCEPT ![k] = r.job],
                      fired |-> IF r.res = "ok" THEN Append(st.fired, Head(ids))
                                ELSE st.fired,
                      failed |-> IF r.res = "err" THEN Append(st.failed, Head(ids))
                                 ELSE st.failed,
                      res |-> st.res], t)

Walk(js, list, t) ==
    RunEach(Ids(list), [jobs |-> js, fired |-> <<>>, failed |-> <<>>, res |-> "ok"], t)

\* The index Remove stops at, were it to run on to the last match
RemoveIndex_LastMatch(js, fn) ==
    IF \E k \in 1..Len(js) : js[k].jobFunc = getFunctionName(fn)
    THEN CHOOSE k \in 1..Len(js) :
            /\ js[k].jobFunc = getFunctionName(fn)
            /\ \A m \in (k + 1)..Len(js) : js[m].jobFunc # getFunctionName(fn)
    ELSE IF Len(js) = 0 THEN 1 ELSE Len(js)

\* Remove: the index the loop stops at is the first match, or the last
\* index when nothing matches (0 when the collection is empty), and the job
\* at that index is cut out; s.jobs[i+1:] panics on an empty collection.
RemoveIndex(js, fn) ==
    IF \E k \in 1..Len(js) : js[k].jobFunc = getFunctionName(fn)
    THEN CHOOSE k \in 1..Len(js) :
            /\ js[k].jobFunc = getFunctionName(fn)
            /\ \A m \in 1..(k - 1) : js[m].jobFunc # getFunctionName(fn)
    ELSE IF Len(js) = 0 THEN 1 ELSE Len(js)

RemoveJobs(js, fn) ==
    LET i == RemoveIndex(js, fn)
    IN  IF i > Len(js) THEN [res |-> "panic", jobs |-> js]
        ELSE [res |-> "ok",
              jobs |-> SubSeq(js, 1, i - 1) \o SubSeq(js, i + 1, Len(js))]

\* ------------------------------------------------------------------ inputs
Intervals == {1, 2}
ClockSteps == {2}
\* "10:30", "00:00", "12:00", "23:59", and two strings formatTime rejects:
\* "25:00", "10-30"
AtInputs ==
    {<<"1", "0", ":", "3", "0">>, <<"0", "0", ":", "0", "0">>,
     <<"1", "2", ":", "0", "0">>, <<"2", "3", ":", "5", "9">>,
     <<"2", "5", ":", "0", "0">>, <<"1", "0", "-", "3", "0">>}
Weekdays == 0..6
Delays == {2}
\* Do(f), and Do(g): one argument short
DoInputs == {<<"f", 0>>, <<"g", 0>>}
\* Do(h), Do(g): one argument short
LoopDoInputs == {<<"h", 0>>, <<"g", 0>>}
\* A Monday at noon
StartNow == 11 * SecondsPerDay + 12 * SecondsPerHour

\* ----------------------------------------------------------------- actions
Init ==
    /\ now = StartNow
    /\ advances = 0
    /\ jobs = <<>>
    /\ loop = "none"
    /\ stopped = [buf |-> 0, sends |-> 0, blocked |-> FALSE]
    /\ crashed = FALSE
    /\ last = NoCall
    /\ race = Quiet

\* The caller's goroutine can make a call
CallerRuns == ~crashed /\ ~stopped.blocked

FreeId == CHOOSE id \in 1..(Len(jobs) + 1) : \A k \in 1..Len(jobs) : jobs[k].id # id

\* s.Every(interval)
Every(interval) ==
    /\ CallerRuns
    /\ Len(jobs) < MaxJobs
    /\ jobs' = Append(jobs, NewJob(FreeId, interval))
    /\ last' = Plain("Every", "ok", now)
    /\ UNCHANGED <<now, advances, loop, stopped, crashed, race>>

\* A builder call on the job the caller holds; a panic of the call leaves
\* the job as it was.  The builder is used as documented: on a job that has
\* no payload yet, the unit chosen once.
Configure(k, op, r) ==
    /\ CallerRuns
    /\ jobs[k].jobFunc = ""
    /\ jobs' = [jobs EXCEPT ![k] = r.job]
    /\ last' = Plain(op, r.res, now)
    /\ UNCHANGED <<now, advances, loop, stopped, crashed, race>>

Seconds(k) == jobs[k].unit = "" /\ Configure(k, "Seconds", SetUnit(jobs[k], UnitSeconds))
Minutes(k) == jobs[k].unit = "" /\ Configure(k, "Minutes", SetUnit(jobs[k], UnitMinutes))
Hours(k) == jobs[k].unit = "" /\ Configure(k, "Hours", SetUnit(jobs[k], UnitHours))
Days(k) == jobs[k].unit = "" /\ Configure(k, "Days", SetUnit(jobs[k], UnitDays))
Weeks(k) == jobs[k].unit = "" /\ Configure(k, "Weeks", SetUnit(jobs[k], UnitWeeks))

Singular(k, u) ==
    /\ jobs[k].unit = ""
    /\ Configure(k, "Singular", SetUnitSingular(jobs[k], u))

WeekdayCall(k, d) ==
    /\ jobs[k].unit = ""
    /\ Configure(k, "Weekday", SetWeekday(jobs[k], d))

AtCall(k, s) ==
    LET r == At(jobs[k], now, s)
    IN  /\ CallerRuns
        /\ jobs[k].jobFunc = ""
        /\ jobs[k].lastRun = Epoch
        /\ jobs' = [jobs EXCEPT ![k] = r.job]
        /\ last' = [Plain("At", r.res, now) EXCEPT !.ret = s]
        /\ UNCHANGED <<now, advances, loop, stopped, crashed, race>>

DoCall(k, fn, n) == Configure(k, "Do", Do(jobs[k], now, fn, n))

\* RunPending, called by the caller or by the loop of Start.  A panic in the
\* loop's goroutine is recovered by nobody and ends the process.
RunPendingBy(by) ==
    \E sorted \in Sorted(jobs) :
        LET list == getRunnableJobs(sorted, now)
            st == Walk(sorted, list, now)
        IN  /\ jobs' = st.jobs
            /\ crashed' = (by = "loop" /\ st.res = "panic")
            /\ last' = [NoCall EXCEPT !.op = "RunPending", !.res = st.res,
                           !.by = by, !.at = now, !.runnable = Ids(list),
                           !.due = NextRuns(list), !.fired = st.fired,
                           !.failed = st.failed, !.busy = Busy(list)]

RunPending ==
    /\ CallerRuns
    /\ RunPendingBy("caller")
    /\ UNCHANGED <<now, advances, loop, stopped, race>>

\* time.Second, and time.Duration(d) of an int d: a count of nanoseconds
TimeSecond == 1000000000
Duration(d) == d

RunAllBy(op, d) ==
    LET st == Walk(jobs, jobs, now)
    IN  /\ CallerRuns
        /\ jobs' = st.jobs
        /\ last' = [NoCall EXCEPT !.op = op, !.res = st.res, !.at = now,
                       !.runnable = Ids(jobs), !.due = NextRuns(jobs),
                       !.fired = st.fired, !.failed = st.failed,
                       !.busy = Busy(jobs), !.sleep = Duration(d),
                       !.ret = IF op = "RunAllwithDelay" THEN <<d>> ELSE <<>>]
        /\ UNCHANGED <<now, advances, loop, stopped, crashed, race>>

RunAll == RunAllBy("RunAll", 0)

\* time.Sleep(time.Duration(d)) after each job: d nanoseconds, which does
\* not move a clock read in seconds
RunAllwithDelay(d) == RunAllBy("RunAllwithDelay", d)

Remove(fn) ==
    LET r == RemoveJobs(jobs, fn)
    IN  /\ CallerRuns
        /\ jobs' = r.jobs
        /\ last' = [Plain("Remove", r.res, now) EXCEPT
                       !.runnable = Ids(jobs),
                       !.ret = <<\E k \in 1..Len(jobs) :
                                    jobs[k].jobFunc = getFunctionName(fn)>>,
                       !.matches = SelectSeq(Ids(jobs), LAMBDA id :
                                      JobOf_(jobs, id).jobFunc = getFunctionName(fn))]
        /\ UNCHANGED <<now, advances, loop, stopped, crashed, race>>

Clear ==
    /\ CallerRuns
    /\ jobs' = <<>>
    /\ last' = Plain("Clear", "ok", now)
    /\ UNCHANGED <<now, advances, loop, stopped, crashed, race>>

\* NextRun, were it to return the first job without sorting
NextRun_Unsorted ==
    /\ CallerRuns
    /\ jobs' = jobs
    /\ last' = [Plain("NextRun", "ok", now) EXCEPT
                   !.ret = IF Len(jobs) <= 0 THEN <<0, now>>
                           ELSE <<jobs[1].id, jobs[1].nextRun>>]
    /\ UNCHANGED <<now, advances, loop, stopped, crashed, race>>

\* NextRun: (nil, now) on an empty collection, else sorts and returns the
\* first job with its nextRun
NextRun ==
    /\ CallerRuns
    /\ IF Len(jobs) <= 0
       THEN /\ jobs' = jobs
            /\ last' = [Plain("NextRun", "ok", now) EXCEPT !.ret = <<0, now>>]
       ELSE \E sorted \in Sorted(jobs) :
            /\ jobs' = sorted
            /\ last' = [Plain("NextRun", "ok", now) EXCEPT
                           !.ret = <<sorted[1].id, sorted[1].nextRun>>]
    /\ UNCHANGED <<now, advances, loop, stopped, crashed, race>>

\* Start: makes the channel (buffer of 1) and launches the loop.  Called
\* once here.
Start ==
    /\ CallerRuns
    /\ loop = "none"
    /\ loop' = "running"
    /\ stopped' = [buf |-> 0, sends |-> 0, blocked |-> FALSE]
    /\ last' = Plain("Start", "ok", now)
    /\ UNCHANGED <<now, advances, jobs, crashed, race>>

\* The caller sends on the channel Start returned.  The send returns at
\* once while the buffer has room; with the buffer full the caller blocks
\* until the loop receives.
MaxSends == 2
SendStop ==
    /\ CallerRuns
    /\ loop # "none"
    /\ stopped.sends < MaxSends
    /\ stopped' = IF stopped.buf < 1
                  THEN [stopped EXCEPT !.buf = 1, !.sends = @ + 1]
                  ELSE [stopped EXCEPT !.blocked = TRUE, !.sends = @ + 1]
    /\ last' = Plain("SendStop", IF stopped.buf < 1 THEN "ok" ELSE "blocked", now)
    /\ UNCHANGED <<now, advances, jobs, loop, crashed, race>>

\* select, case <-ticker.C: s.RunPending()
LoopTick ==
    /\ ~crashed
    /\ loop = "running"
    /\ RunPendingBy("loop")
    /\ UNCHANGED <<now, advances, loop, stopped, race>>

\* select, case <-stopped: return.  A sender blocked on the full buffer
\* completes its send as the loop takes the buffered message.
LoopStop ==
    /\ ~crashed
    /\ loop = "running"
    /\ stopped.buf > 0
    /\ loop' = "returned"
    /\ stopped' = IF stopped.blocked THEN [stopped EXCEPT !.blocked = FALSE]
                  ELSE [stopped EXCEPT !.buf = 0]
    /\ last' = [Plain("LoopStop", "ok", now) EXCEPT !.by = "loop"]
    /\ UNCHANGED <<now, advances, jobs, crashed, race>>

\* A payload launched by run returns.  Of "MaxRunning or more" unfinished
\* payloads, as many or one fewer than MaxRunning are left.
Complete(k) ==
    /\ ~crashed
    /\ jobs[k].inflight > 0
    /\ \E left \in {jobs[k].inflight - 1} \cup
                    (IF jobs[k].inflight = MaxRunning THEN {MaxRunning} ELSE {}) :
            jobs' = [jobs EXCEPT ![k].inflight = left]
    /\ last' = [Plain("Complete", "ok", now) EXCEPT !.by = "payload"]
    /\ UNCHANGED <<now, advances, loop, stopped, crashed, race>>

\* Time passes
Advance(d) ==
    /\ ~crashed
    /\ advances < MaxAdvances
    /\ now' = now + d
    /\ advances' = advances + 1
    /\ last' = [Plain("Advance", "ok", now + d) EXCEPT !.by = "clock"]
    /\ UNCHANGED <<jobs, loop, stopped, crashed, race>>

\* The scheduler's collection and dispatch operations, called by one
\* goroutine
Next ==
    \/ \E i \in Intervals : Every(i)
    \/ \E k \in 1..Len(jobs) : Seconds(k)
    \/ \E k \in 1..Len(jobs), c \in DoInputs :
          jobs[k].unit # "" /\ DoCall(k, c[1], c[2])
    \/ RunPending
    \/ RunAll
    \/ \E d \in Delays : RunAllwithDelay(d)
    \/ \E fn \in {"f", "g"} : Remove(fn)
    \/ Clear
    \/ NextRun
    \/ \E d \in ClockSteps : Advance(d)

Spec == Init /\ [][Next]_vars

\* The loop of Start beside the caller, with payloads that last
NextLoop ==
    \/ Every(1)
    \/ \E k \in 1..Len(jobs) : Seconds(k)
    \/ \E k \in 1..Len(jobs), c \in LoopDoInputs :
          jobs[k].unit # "" /\ DoCall(k, c[1], c[2])
    \/ RunPending
    \/ Start
    \/ SendStop
    \/ LoopTick
    \/ LoopStop
    \/ \E k \in 1..Len(jobs) : Complete(k)
    \/ \E d \in ClockSteps : Advance(d)

SpecLoop == Init /\ [][NextLoop]_vars

\* One job from Every to its fires, with every unit, weekday and anchor
JobIntervals == {0, 1, 2}
JobClockSteps ==
    {1, SecondsPerMinute, SecondsPerHour, SecondsPerDay, SecondsPerWeek}
\* Do(f), Do(g): one argument short, and Do of a value that is no function
JobDoInputs == {<<"f", 0>>, <<"g", 0>>, <<NotFunc, 0>>}
\* A Monday at noon, and the Wednesday after it at 09:00
JobStarts == {StartNow, StartNow + 2 * SecondsPerDay - 3 * SecondsPerHour}

\* The state s.Every(interval) leaves a new scheduler in
InitJob ==
    /\ now \in JobStarts
    /\ advances = 0
    /\ \E i \in JobIntervals : jobs = <<NewJob(1, i)>>
    /\ loop = "none"
    /\ stopped = [buf |-> 0, sends |-> 0, blocked |-> FALSE]
    /\ crashed = FALSE
    /\ last = Plain("Every", "ok", now)
    /\ race = Quiet

NextJob ==
    \/ \E k \in 1..Len(jobs) : Seconds(k)
    \/ \E k \in 1..Len(jobs) : Minutes(k)
    \/ \E k \in 1..Len(jobs) : Hours(k)
    \/ \E k \in 1..Len(jobs) : Days(k)
    \/ \E k \in 1..Len(jobs) : Weeks(k)
    \/ \E k \in 1..Len(jobs), u \in Units \ {UnitWeeks} : Singular(k, u)
    \/ \E k \in 1..Len(jobs), d \in Weekdays : WeekdayCall(k, d)
    \/ \E k \in 1..Len(jobs), s \in AtInputs : AtCall(k, s)
    \/ \E k \in 1..Len(jobs), c \in JobDoInputs : DoCall(k, c[1], c[2])
    \/ RunPending
    \/ RunAll
    \/ \E d \in Delays : RunAllwithDelay(d)
    \/ \E d \in JobClockSteps : Advance(d)

SpecJob == InitJob /\ [][NextJob]_vars

\* The loop of Start and the caller, statement by statement.  Nothing in
\* the source orders the two goroutines, so any statement of one may fall
\* between two statements of the other.
MaxRaceJobs == 3
MaxRaceCalls == 5

\* A job id no job in sight carries
RaceFreeId ==
    CHOOSE id \in 1..(2 * MaxRaceJobs + 3) :
        /\ \A k \in 1..Len(jobs) : jobs[k].id # id
        /\ \A k \in 1..Len(race.temps) : race.temps[k].id # id
        /\ id \notin race.live

LoopRuns == ~crashed /\ loop = "running"
CallerIdle == CallerRuns /\ race.caller = "idle"
CallerCalls == CallerIdle /\ race.calls < MaxRaceCalls
InLoop(r) == [r EXCEPT !.overlap = race.caller # "idle"]
InCaller(r) == [r EXCEPT !.overlap = race.pc # "idle"]
Counted(r) == [r EXCEPT !.calls = @ + 1]

\* case <-ticker.C: RunPending, getRunnableJobs, sort.Sort: n := data.Len()
RaceTick ==
    /\ LoopRuns
    /\ race.pc = "idle"
    /\ race' = InLoop([race EXCEPT !.n = Len(jobs), !.i = 2, !.j = 2,
                          !.pc = IF Len(jobs) <= 1 THEN "scan" ELSE "less"])
    /\ UNCHANGED <<now, advances, jobs, loop, stopped, crashed, last>>

\* The index being out of range in the goroutine of the loop
RacePanic ==
    /\ crashed' = TRUE
    /\ last' = [Plain("RunPending", "panic", now) EXCEPT !.by = "loop"]
    /\ race' = InLoop(race)
    /\ UNCHANGED <<now, advances, jobs, loop, stopped>>

\* insertionSort: for i := a + 1; i < b; i++ {
\*                    for j := i; j > a && data.Less(j, j-1); j-- { ... } }
RaceLess ==
    /\ LoopRuns
    /\ race.pc = "less"
    /\ IF race.j > 1 /\ race.j > Len(jobs)
       THEN RacePanic
       ELSE /\ race' = InLoop(
                   IF race.j > 1 /\ Less(jobs, race.j, race.j - 1)
                   THEN [race EXCEPT !.pc = "swap"]
                   ELSE [race EXCEPT !.i = @ + 1, !.j = race.i + 1,
                            !.pc = IF race.i + 1 > race.n THEN "scan"
                                   ELSE "less"])
            /\ UNCHANGED <<now, advances, jobs, loop, stopped, crashed, last>>

\* Swap(j, j-1), its first phase: s.jobs[j-1] and s.jobs[j] are read
RaceSwapRead ==
    /\ LoopRuns
    /\ race.pc = "swap"
    /\ IF race.j > Len(jobs)
       THEN RacePanic
       ELSE /\ race' = InLoop([race EXCEPT !.pc = "swapW1", !.stale = FALSE,
                                  !.temps = <<jobs[race.j - 1], jobs[race.j]>>])
            /\ UNCHANGED <<now, advances, jobs, loop, stopped, crashed, last>>

\* A write to the array Swap has read from; lost when s.jobs is another
\* array by now, and unseen when the slot is beyond len(s.jobs)
Store(k, job) ==
    IF race.stale \/ k > Len(jobs) THEN jobs ELSE [jobs EXCEPT ![k] = job]

\* Swap, second phase: s.jobs[j] = (what s.jobs[j-1] was)
RaceSwapWrite1 ==
    /\ LoopRuns
    /\ race.pc = "swapW1"
    /\ jobs' = Store(race.j, race.temps[1])
    /\ race' = InLoop([race EXCEPT !.pc = "swapW2"])
    /\ UNCHANGED <<now, advances, loop, stopped, crashed, last>>

\* ... then s.jobs[j-1] = (what s.jobs[j] was), and j--
RaceSwapWrite2 ==
    /\ LoopRuns
    /\ race.pc = "swapW2"
    /\ jobs' = Store(race.j - 1, race.temps[2])
    /\ race' = InLoop([race EXCEPT !.pc = "less", !.j = @ - 1, !.temps = <<>>,
                          !.stale = FALSE])
    /\ UNCHANGED <<now, advances, loop, stopped, crashed, last>>

\* The rest of RunPending: the jobs up to the first that should not run are
\* collected and run
RaceScan ==
    LET list == getRunnableJobs(jobs, now)
        st == Walk(jobs, list, now)
    IN  /\ LoopRuns
        /\ race.pc = "scan"
        /\ jobs' = st.jobs
        /\ crashed' = (st.res = "panic")
        /\ last' = [NoCall EXCEPT !.op = "RunPending", !.res = st.res,
                       !.by = "loop", !.at = now, !.runnable = Ids(list),
                       !.due = NextRuns(list), !.fired = st.fired,
                       !.failed = st.failed, !.busy = Busy(list)]
        /\ race' = InLoop([race EXCEPT !.pc = "idle"])
        /\ UNCHANGED <<now, advances, loop, stopped>>

\* s.jobs = append(s.jobs, job) in Every: with room in the array the job is
\* stored behind the others; without, the jobs are copied to a larger array
\* first and s.jobs is assigned in a second statement
RaceEvery(interval) ==
    /\ CallerCalls
    /\ Len(jobs) < MaxRaceJobs
    /\ Cardinality(race.live) < MaxRaceJobs
    /\ IF race.cap > Len(jobs)
       THEN /\ jobs' = Append(jobs, NewJob(RaceFreeId, interval))
            /\ race' = Counted(InCaller([race EXCEPT !.live = @ \cup {RaceFreeId}]))
            /\ last' = Plain("Every", "ok", now)
       ELSE /\ race' = Counted(InCaller([race EXCEPT !.caller = "every",
                            !.snap = Append(jobs, NewJob(RaceFreeId, interval))]))
            /\ UNCHANGED <<jobs, last>>
    /\ UNCHANGED <<now, advances, loop, stopped, crashed>>

RaceEveryPublish ==
    /\ CallerRuns
    /\ race.caller = "every"
    /\ jobs' = race.snap
    /\ race' = InCaller([race EXCEPT !.caller = "idle", !.snap = <<>>,
                            !.stale = TRUE,
                            !.cap = IF race.cap = 0 THEN 1 ELSE 2 * race.cap,
                            !.live = @ \cup {race.snap[Len(race.snap)].id}])
    /\ last' = Plain("Every", "ok", now)
    /\ UNCHANGED <<now, advances, loop, stopped, crashed>>

\* Remove: the jobs behind the one cut out move down within the array
RaceRemove(fn) ==
    LET r == RemoveJobs(jobs, fn)
    IN  /\ CallerCalls
        /\ jobs' = r.jobs
        /\ race' = Counted(InCaller([race EXCEPT !.live =
                        IF r.res = "ok" THEN @ \ {jobs[RemoveIndex(jobs, fn)].id}
                        ELSE @]))
        /\ last' = Plain("Remove", r.res, now)
        /\ UNCHANGED <<now, advances, loop, stopped, crashed>>

\* Clear: s.jobs is a new, empty slice
RaceClear ==
    /\ CallerCalls
    /\ jobs' = <<>>
    /\ race' = Counted(InCaller([race EXCEPT !.cap = 0, !.stale = TRUE,
                                    !.live = {}]))
    /\ last' = Plain("Clear", "ok", now)
    /\ UNCHANGED <<now, advances, loop, stopped, crashed>>

\* No builder call falls between the two writes of a Swap here: temps holds
\* the jobs by value.  The clock stands still, so the jobs the loop finds due
\* are those that have no nextRun yet.
NextRace ==
    \/ Start
    \/ RaceEvery(1)
    \/ RaceEveryPublish
    \/ \E k \in 1..Len(jobs) :
          CallerIdle /\ race.temps = <<>> /\ Seconds(k)
    \/ \E k \in 1..Len(jobs) :
          /\ CallerIdle /\ race.temps = <<>> /\ jobs[k].unit # ""
          /\ DoCall(k, "f", 0)
    \/ RaceRemove("f")
    \/ RaceClear
    \/ RaceTick
    \/ RaceLess
    \/ RaceSwapRead
    \/ RaceSwapWrite1
    \/ RaceSwapWrite2
    \/ RaceScan

SpecRace == Init /\ [][NextRace]_vars

\* ------------------------------------------------------------------ claims
HasJob(id) == \E k \in 1..Len(jobs) : jobs[k].id = id
JobOf(id) == jobs[IndexOf(jobs, id)]
Range(q) == {q[k] : k \in 1..Len(q)}
Dispatching == {"RunPending", "RunAll", "RunAllwithDelay"}
\* A job that has a payload whose parameter count its arguments match
CanFire(j) == j.jobFunc # "" /\ j.nparams = NumIn(j.jobFunc)

\* C1: Remove(f) with a payload identity that matches no job leaves the
\* collection as it was (same jobs, same order, same count) and does not
\* fail, whatever the size of the collection, the empty one included.
C1_RemoveAbsentIsNoOp ==
    (last.op = "Remove" /\ last.ret = <<FALSE>>) =>
        (last.res = "ok" /\ Ids(jobs) = last.runnable)

\* C2: one RunPending call fires each job at most once, however long ago
\* its nextRun was; it fires no job whose nextRun was not yet passed; and it
\* fires every job with a payload and a matching argument count whose
\* nextRun had passed.
C2_RunPendingFiresDueJobsOnce ==
    last.op = "RunPending" =>
        /\ \A a, b \in 1..Len(last.fired) : a # b => last.fired[a] # last.fired[b]
        /\ \A a \in 1..Len(last.fired) :
              \E r \in 1..Len(last.runnable) :
                  last.runnable[r] = last.fired[a] /\ last.due[r] < last.at
        /\ \A k \in 1..Len(jobs) :
              (CanFire(jobs[k]) /\ jobs[k].id \notin Range(last.fired))
                  => ~(jobs[k].nextRun < last.at)

\* The positions of the fired and failed jobs in the list, in call order
PositionIn(list, id) == CHOOSE r \in 1..Len(list) : list[r] = id
InListOrder(sub, list) ==
    /\ \A a \in 1..Len(sub) : \E r \in 1..Len(list) : list[r] = sub[a]
    /\ \A a, b \in 1..Len(sub) :
          a < b => PositionIn(list, sub[a]) < PositionIn(list, sub[b])

\* C3: the list getRunnableJobs returns holds exactly the jobs whose nextRun
\* is strictly before the instant of the call, each once, in ascending
\* order of nextRun; a job left out is not due; and RunPending runs the jobs
\* of the list in the list's order, leaving none out unless run panics.
C3_RunnableIsDuePrefixInOrder ==
    last.op = "RunPending" =>
        /\ Len(last.due) = Len(last.runnable)
        /\ \A a, b \in 1..Len(last.runnable) :
              a < b => /\ last.runnable[a] # last.runnable[b]
                       /\ last.due[a] <= last.due[b]
        /\ \A a \in 1..Len(last.runnable) :
              HasJob(last.runnable[a]) /\ last.due[a] < last.at
        /\ \A k \in 1..Len(jobs) :
              jobs[k].id \notin Range(last.runnable) => ~(jobs[k].nextRun < last.at)
        /\ InListOrder(last.fired, last.runnable)
        /\ InListOrder(last.failed, last.runnable)
        /\ last.res = "ok" =>
              Range(last.fired) \cup Range(last.failed) = Range(last.runnable)

\* C3 witness: with two jobs due at different instants, RunPending has fired
\* both, the earlier one first.
C3_Witness ==
    /\ last.op = "RunPending"
    /\ Len(last.fired) = 2
    /\ last.due[1] < last.due[2]
    /\ last.fired = last.runnable

\* C4: no job without a payload is in the list getRunnableJobs returns, and
\* none is fired by RunPending, RunAll or RunAllwithDelay.
C4_NoJobWithoutPayloadIsRunnable ==
    /\ last.op = "RunPending" =>
          \A a \in 1..Len(last.runnable) : JobOf(last.runnable[a]).jobFunc # ""
    /\ last.op \in Dispatching =>
          \A a \in 1..Len(last.fired) : JobOf(last.fired[a]).jobFunc # ""

\* The job was fired by the call: its payload launched at the call's instant
\* and the job rescheduled from it
FiredNow(j) ==
    /\ j.id \in Range(last.fired)
    /\ j.lastRun = last.at
    /\ j.nextRun = last.at + j.period

\* C5: in a RunPending call in which the run of a due job fails on the
\* argument count, the failure stays with that job: the call returns
\* normally, every other due job whose argument count matches is fired and
\* rescheduled in the same call, only mismatched jobs are among the failed,
\* and when the loop of Start made the call the loop goes on running.
C5_MismatchFailureIsConfined ==
    (last.op = "RunPending" /\ last.failed # <<>>) =>
        /\ last.res = "ok"
        /\ ~crashed
        /\ last.by = "loop" => loop = "running"
        /\ \A a \in 1..Len(last.runnable) :
              LET j == JobOf(last.runnable[a])
              IN  IF j.id \in Range(last.failed)
                  THEN j.jobFunc # "" /\ j.nparams # NumIn(j.jobFunc)
                  ELSE FiredNow(j)

\* C5 witness: the loop's RunPending met a mismatched job first and fired the
\* due job after it.
C5_Witness ==
    /\ last.op = "RunPending"
    /\ last.by = "loop"
    /\ Len(last.runnable) = 2
    /\ last.failed = <<last.runnable[1]>>
    /\ last.fired = <<last.runnable[2]>>
    /\ loop = "running"

\* C6: a payload that has not returned holds nothing up.  In every
\* RunPending call that returns, each due job that still had an unfinished
\* payload is fired again and rescheduled, one more payload running beside
\* the earlier one, and so is every other due job with a matching argument
\* count.
C6_DispatchDoesNotWaitForPayloads ==
    (last.op = "RunPending" /\ last.res = "ok") =>
        \A a \in 1..Len(last.runnable) :
            LET j == JobOf(last.runnable[a])
            IN  /\ CanFire(j) => FiredNow(j)
                /\ j.id \in last.busy =>
                      /\ FiredNow(j)
                      /\ j.inflight >= (IF MaxRunning < 2 THEN MaxRunning ELSE 2)

\* C6 witness: a tick of the loop fired two due jobs in one call, one of them
\* for the second time while its first payload was still running.
C6_Witness ==
    /\ last.op = "RunPending"
    /\ last.by = "loop"
    /\ Len(last.fired) = 2
    /\ \E a \in 1..2 : /\ last.fired[a] \in last.busy
                       /\ JobOf(last.fired[a]).inflight = 2

\* C7 (its safety part): a loop that was started is running until it takes
\* the stop signal and returns, and nothing else ends it; it calls
\* RunPending only while it is running; and the first send on the channel
\* returns at once.
C7_LoopEndsOnlyOnStopSignal ==
    /\ loop = "running" => ~crashed
    /\ loop = "returned" => stopped.sends > 0
    /\ (last.op = "RunPending" /\ last.by = "loop") => loop = "running"
    /\ (last.op = "SendStop" /\ stopped.sends = 1) => last.res = "ok"

\* C8, as stated: in every state of every job, nextRun is not before lastRun.
C8_NextRunNeverBeforeLastRun ==
    \A k \in 1..Len(jobs) : jobs[k].nextRun >= jobs[k].lastRun

\* C8, amended: nextRun is not before lastRun in every state of a job that At
\* has not anchored yet or that Do has armed, after any number of fires.
\* (Between At and Do lastRun is the anchor and nextRun still the epoch.)
C8_NextRunNotBeforeLastRunOnceArmed ==
    \A k \in 1..Len(jobs) :
        (jobs[k].jobFunc # "" \/ jobs[k].lastRun = Epoch) =>
            jobs[k].nextRun >= jobs[k].lastRun

\* C8 witness: Do has just armed a days job that At had anchored in the past.
C8_Witness ==
    /\ last.op = "Do"
    /\ last.res = "ok"
    /\ \E k \in 1..Len(jobs) :
          /\ jobs[k].unit = UnitDays
          /\ jobs[k].jobFunc # ""
          /\ jobs[k].lastRun # Epoch
          /\ jobs[k].lastRun < last.at
          /\ jobs[k].nextRun = jobs[k].lastRun + jobs[k].interval * SecondsPerDay

\* C9: right after a RunPending, RunAll or RunAllwithDelay call, every job
\* the call fired has lastRun equal to the instant of the fire and nextRun
\* equal to lastRun plus its period.
C9_FireSetsLastRunAndNextRun ==
    last.op \in Dispatching =>
        \A a \in 1..Len(last.fired) :
            LET j == JobOf(last.fired[a])
            IN  /\ j.lastRun = last.at
                /\ j.nextRun = j.lastRun + j.period

\* C9 witness: RunPending fired a due job that At had anchored before the
\* fire, its period positive.
C9_Witness ==
    /\ last.op = "RunPending"
    /\ last.fired # <<>>
    /\ last.due[1] < last.at
    /\ last.due[1] % SecondsPerDay = 10 * SecondsPerHour + 30 * SecondsPerMinute
    /\ JobOf(last.fired[1]).period > 0
    /\ JobOf(last.fired[1]).nextRun > last.at

\* The number of seconds in one unit
Multiplier(u) ==
    CASE u = UnitSeconds -> 1
      [] u = UnitMinutes -> 60
      [] u = UnitHours -> 3600
      [] u = UnitDays -> 86400
      [] u = UnitWeeks -> 604800

\* C10: an armed job with a unit has period = interval times the number of
\* seconds in its unit, in every state from the arming on, so after every
\* fire as well.
C10_PeriodIsIntervalTimesUnit ==
    \A k \in 1..Len(jobs) :
        (jobs[k].jobFunc # "" /\ jobs[k].unit \in Units) =>
            jobs[k].period = jobs[k].interval * Multiplier(jobs[k].unit)

\* C10 witness: a job of two weeks has been fired a second time and its
\* period is still 1209600 seconds.
C10_Witness ==
    /\ last.op \in Dispatching
    /\ last.fired # <<>>
    /\ last.due[1] > StartNow
    /\ JobOf(last.fired[1]).unit = UnitWeeks
    /\ JobOf(last.fired[1]).interval = 2
    /\ JobOf(last.fired[1]).period = 1209600

\* The clock times handed to At, as seconds after midnight
ClockTimes ==
    {<<<<"1", "0", ":", "3", "0">>, 37800>>, <<<<"0", "0", ":", "0", "0">>, 0>>,
     <<<<"1", "2", ":", "0", "0">>, 43200>>, <<<<"2", "3", ":", "5", "9">>, 86340>>}
Midnight(t) == t - (t % 86400)

\* C11: in Every(1).Day().At(t).Do(f), or with Days for Day, the step of Do
\* that follows At leaves the job with lastRun yesterday at t and nextRun
\* today at t when the instant of the configuration is before today's t,
\* and with lastRun today at t and nextRun tomorrow at t when it is after.
C11_DailyAtAnchorsAroundNow ==
    [][\A c \in ClockTimes :
          (/\ last.op = "At" /\ last.res = "ok" /\ last.ret = c[1]
           /\ last'.op = "Do" /\ last'.res = "ok"
           /\ jobs[1].unit = UnitDays /\ jobs[1].interval = 1) =>
              LET n == last.at
                  today == Midnight(n) + c[2]
              IN  /\ n < today => /\ jobs'[1].lastRun = today - 86400
                                  /\ jobs'[1].nextRun = today
                  /\ n > today => /\ jobs'[1].lastRun = today
                                  /\ jobs'[1].nextRun = today + 86400]_vars

\* C11 witness: Do has armed a daily job anchored by At before today's t:
\* lastRun is yesterday at t, nextRun later today.
C11_Witness ==
    /\ last.op = "Do"
    /\ last.res = "ok"
    /\ jobs[1].unit = UnitDays
    /\ jobs[1].interval = 1
    /\ jobs[1].nextRun > now
    /\ Midnight(jobs[1].nextRun) = Midnight(now)
    /\ jobs[1].lastRun = jobs[1].nextRun - 86400

\* The occurrences of weekday d at clock time c (seconds after midnight) on
\* today and the seven days before it, n being the present instant
Occurrences(n, d, c) ==
    {x \in {Midnight(n) - b * 86400 + c : b \in 0..7} : Weekday(x) = d}
Latest(S) == CHOOSE x \in S : \A y \in S : y <= x
\* The step of Do that follows At(c) on a weekly job of interval 1
WeeklyAtThenDo(c) ==
    /\ last.op = "At" /\ last.res = "ok" /\ last.ret = c[1]
    /\ last'.op = "Do" /\ last'.res = "ok"
    /\ jobs[1].unit = UnitWeeks /\ jobs[1].interval = 1

\* C12, as stated: for a weekly job with an anchor weekday and At(t), Do
\* leaves lastRun at the most recent occurrence of the anchor weekday at t
\* that is not after now, and nextRun 7 days after it.
C12_WeeklyAnchorNotAfterNow ==
    [][\A c \in ClockTimes :
          WeeklyAtThenDo(c) =>
              LET occ == {x \in Occurrences(last.at, jobs[1].startDay, c[2]) :
                              x <= last.at}
              IN  /\ jobs'[1].lastRun = Latest(occ)
                  /\ jobs'[1].nextRun = jobs'[1].lastRun + 7 * 86400]_vars

\* C12, amended: lastRun is the most recent occurrence of the anchor weekday
\* at t that is before now (a whole week back when now is that very
\* instant), and nextRun 7 days after it.
C12_WeeklyAnchorBeforeNow ==
    [][\A c \in ClockTimes :
          WeeklyAtThenDo(c) =>
              LET occ == {x \in Occurrences(last.at, jobs[1].startDay, c[2]) :
                              x < last.at}
              IN  /\ jobs'[1].lastRun = Latest(occ)
                  /\ jobs'[1].nextRun = jobs'[1].lastRun + 7 * 86400]_vars

\* C12 witness: Do has armed a weekly job whose anchor weekday lies later in
\* the week than today, anchored by At to that weekday of last week.
C12_Witness ==
    /\ last.op = "Do"
    /\ last.res = "ok"
    /\ jobs[1].unit = UnitWeeks
    /\ jobs[1].interval = 1
    /\ jobs[1].startDay > Weekday(now)
    /\ Weekday(jobs[1].lastRun) = jobs[1].startDay
    /\ jobs[1].lastRun % 86400 = 37800
    /\ jobs[1].lastRun < now
    /\ jobs[1].nextRun = jobs[1].lastRun + 604800

C14_NextRunReturnsEarliestJob ==
    last.op = "NextRun" =>
        /\ last.res = "ok"
        /\ Len(last.ret) = 2
        /\ IF Len(jobs) = 0
           THEN last.ret = <<0, last.at>>
           ELSE /\ HasJob(last.ret[1])
                /\ last.ret[2] = JobOf(last.ret[1]).nextRun
                /\ \A k \in 1..Len(jobs) : jobs[k].nextRun >= last.ret[2]

\* C14 witness: NextRun has returned the earlier of two armed jobs with
\* different nextRun.
C14_Witness ==
    /\ last.op = "NextRun"
    /\ Len(jobs) = 2
    /\ \A k \in 1..2 : jobs[k].jobFunc # ""
    /\ jobs[1].nextRun # jobs[2].nextRun
    /\ \E k \in 1..2 : /\ jobs[k].id = last.ret[1]
                       /\ jobs[3 - k].nextRun > last.ret[2]

\* C14 witness on the empty collection
C14_WitnessEmpty ==
    /\ last.op = "NextRun"
    /\ Len(jobs) = 0
    /\ last.ret = <<0, now>>

\* The sequence q without its element x
Without(q, x) == SelectSeq(q, LAMBDA y : y # x)

Intact ==
    /\ \A a, b \in 1..Len(jobs) : a # b => jobs[a].id # jobs[b].id
    /\ {jobs[k].id : k \in 1..Len(jobs)} = race.live

\* C16: after Start, no statement of the loop's RunPending falls inside a
\* caller's Every, Remove or Clear and none of theirs inside RunPending; and
\* whenever both are between calls the collection holds exactly the jobs
\* added and not removed, each once.
C16_CollectionHasOneUserAtATime ==
    /\ ~race.overlap
    /\ (race.pc = "idle" /\ race.caller = "idle") => Intact

\* C16, the second part alone
C16_NoJobLostOrDuplicated ==
    (race.pc = "idle" /\ race.caller = "idle") => Intact

\* C17: RunAll fires every job of the collection once, due or not, in the
\* order the collection is in (a job whose argument count does not match
\* has no fire to make), and leaves the collection as it was: the same jobs
\* in the same order.
C17_RunAllFiresEveryJobOnce ==
    last.op = "RunAll" =>
        /\ last.res = "ok"
        /\ Ids(jobs) = last.runnable
        /\ last.fired = SelectSeq(last.runnable, LAMBDA id : CanFire(JobOf(id)))
        /\ \A a \in 1..Len(last.fired) : FiredNow(JobOf(last.fired[a]))

\* C18: RunAllwithDelay(d) pauses d seconds after a job before it fires the
\* next: the time it sleeps is d times one second.
C18_DelayIsDSeconds ==
    (last.op = "RunAllwithDelay" /\ last.fired # <<>>) =>
        last.sleep = last.ret[1] * TimeSecond

\* C19: once a job is armed, no step (RunPending, RunAll, RunAllwithDelay,
\* the clock moving) decreases its nextRun or its lastRun, and a fire of a
\* job with a period other than 0, at an instant later than its lastRun,
\* leaves nextRun later than it was.
C19_RunTimesNeverDecrease ==
    [][\A k \in 1..Len(jobs) :
          (jobs[k].jobFunc # "" /\ Len(jobs') = Len(jobs)) =>
              /\ jobs'[k].nextRun >= jobs[k].nextRun
              /\ jobs'[k].lastRun >= jobs[k].lastRun
              /\ (/\ last'.op \in Dispatching
                  /\ jobs[k].id \in Range(last'.fired)
                  /\ jobs[k].period # 0
                  /\ last'.at > jobs[k].lastRun) =>
                      jobs'[k].nextRun > jobs[k].nextRun]_vars

\* C19 witness: RunAll has fired a job that was not due yet, and its nextRun
\* is later than it was.
C19_Witness ==
    /\ last.op = "RunAll"
    /\ last.fired = <<1>>
    /\ last.due[1] > last.at
    /\ jobs[1].lastRun = last.at
    /\ jobs[1].nextRun > last.due[1]

\* A job that has a payload its arguments do not match
Mismatched(j) == j.jobFunc # "" /\ j.nparams # NumIn(j.jobFunc)

\* C20: a fire that fails on the argument count leaves the job's lastRun,
\* nextRun and period as they were and launches no payload; so the job stays
\* due, and every RunPending from then on, for as long as the job is in the
\* collection, selects it and fails on it again.
C20_FailedFireChangesNothing ==
    [][\A k \in 1..Len(jobs) :
          /\ (/\ last'.op \in Dispatching
              /\ jobs[k].id \in Range(last'.failed)) =>
                  /\ jobs[k].id \notin Range(last'.fired)
                  /\ \E m \in 1..Len(jobs') : jobs'[m] = jobs[k]
          /\ (/\ last'.op = "RunPending"
              /\ Mismatched(jobs[k])
              /\ jobs[k].nextRun < last'.at) =>
                  /\ jobs[k].id \in Range(last'.runnable)
                  /\ jobs[k].id \in Range(last'.failed)]_vars

====
